---- MODULE Spec2Model ----
(***************************************************************************)
(* ts-async-either: the synchronous Either (Left / Right) and the          *)
(* AsyncEither wrapper over a promise of an Either, as a state machine.    *)
(*                                                                         *)
(* A run is either a synchronous script (a sequence of combinator calls on *)
(* one Either) or an asynchronous one (AsyncEither wrappers, their         *)
(* promises, the async transform frames and the host's microtask queue).   *)
(***************************************************************************)
EXTENDS Integers, Sequences, FiniteSets

\* ---------------------------------------------------------------- bounds
MaxVal == 2
MaxOps == 2
MaxWrappers == 3
MaxObservers == 2

\* ---------------------------------------------------------------- values
Val(n) == [tag |-> "Val", n |-> n]
Bool(b) == [tag |-> "Bool", b |-> b]
Undefined == [tag |-> "Undefined"]
PlainValues == {Val(i) : i \in 1..MaxVal}

\* new Left(error) / new Right(value): the payload is set at construction
Left(error) == [tag |-> "Left", error |-> error]
Right(value) == [tag |-> "Right", value |-> value]
left(error) == Left(error)
right(value) == Right(value)

\* result instanceof Either
InstanceOfEither(x) == x.tag \in {"Left", "Right"}

Eithers(S) == {Left(x) : x \in S} \cup {Right(x) : x \in S}

EitherUnwrapError(message) ==
  [tag |-> "EitherUnwrapError", message |-> message, code |-> "EITHER_UNWRAP_ERROR"]

\* what the runtime throws when a method that the class does not define is called
TypeError(method) == [tag |-> "TypeError", method |-> method]

\* ------------------------------------------------------------- callbacks
\* A callback is [fn, how]: fn names the function of its argument, how says
\* the way the result comes back: returned, thrown, or through a promise
\* that later fulfils or rejects with it.
\* "f.g" names the composition x => g(f(x)) of two total functions.
Total == {"succ", "id"}
Compose(f, g) ==
  CASE f = "succ" /\ g = "succ" -> "succ.succ"
    [] f = "succ" /\ g = "id" -> "succ.id"
    [] f = "id" /\ g = "succ" -> "id.succ"
    [] f = "id" /\ g = "id" -> "id.id"
First(fg) == IF fg \in {"succ.succ", "succ.id"} THEN "succ" ELSE "id"
Second(fg) == IF fg \in {"succ.succ", "id.succ"} THEN "succ" ELSE "id"

RECURSIVE Apply(_, _)
Apply(fn, x) ==
  CASE fn = "succ" -> IF x.tag = "Val" THEN Val((x.n % MaxVal) + 1) ELSE Val(1)
    [] fn = "id" -> x
    [] fn \in {"succ.succ", "succ.id", "id.succ", "id.id"} ->
         Apply(Second(fn), Apply(First(fn), x))
    [] fn = "wrap" -> Right(x)
    [] fn = "fail" -> Left(x)
    [] fn = "isOne" -> Bool(x = Val(1))
    [] OTHER -> Undefined

\* JavaScript truthiness of a callback's result (predicateResult ? ... : ...)
Truthy(x) == IF x.tag = "Bool" THEN x.b ELSE x.tag # "Undefined"

Callback(fn, how) == [fn |-> fn, how |-> how]
NoCallback == [fn |-> "none", how |-> "absent"]

\* completion of a synchronous call: a returned value or a thrown exception,
\* with the callbacks it invoked, in order
Return(v) == [kind |-> "return", v |-> v, calls |-> <<>>]
Throw(x) == [kind |-> "throw", v |-> x, calls |-> <<>>]
Invocation(role, cb, x) == [role |-> role, cb |-> cb, arg |-> x]
Invoke(role, cb, x) ==
  [kind |-> IF cb.how = "throws" THEN "throw" ELSE "return",
   v |-> Apply(cb.fn, x),
   calls |-> <<Invocation(role, cb, x)>>]
After(c, calls) == [c EXCEPT !.calls = calls \o c.calls]

\* ------------------------------------------------------ Left (left.ts)
Left_map(this) == Return(Left(this.error))

Left_mapError(this, fn) ==
  LET r == Invoke("fn", fn, this.error)
  IN  IF r.kind = "throw" THEN r ELSE After(Return(Left(r.v)), r.calls)

Left_filter(this) == Return(Left(this.error))

Left_flatMap(this) == Return(Left(this.error))

\* a faulty variant, for comparison: a Left that answers isRight() with true
Left_isRight_Always(this) == TRUE

Left_isRight(this) == FALSE

Left_isLeft(this) == TRUE

Left_unwrap(this) == Throw(EitherUnwrapError("Cannot unwrap Left instance"))

Left_unwrapError(this) == Return(this.error)

Left_tap(this) == Return(this)

\* try { fn(this.error) } catch (error) { console.log / console.error }
\* return this
Left_tapError(this, fn) == After(Return(this), Invoke("fn", fn, this.error).calls)

\* if (leftFn) return this.tapError(leftFn); return this
Left_tapBoth(this, rightFn, leftFn) ==
  IF leftFn # NoCallback THEN Left_tapError(this, leftFn) ELSE Return(this)

Left_getOrElse(this, defaultValue) == Return(defaultValue)

Left_getErrorOrElse(this) == Return(this.error)

\* the object that toResult() returns
Success(value) == [tag |-> "Result", success |-> TRUE, value |-> value]
Failure(error) == [tag |-> "Result", success |-> FALSE, error |-> error]

Left_toResult(this) == Return(Failure(this.error))

\* ---------------------------------------------------- Right (right.ts)
\* a faulty variant, for comparison: map hands back what mapper returned, unwrapped
Right_map_Unwrapped(this, mapper) == Invoke("fn", mapper, this.value)

\* a faulty variant, for comparison: map that turns an exception of mapper into a Left
Right_map_Catches(this, mapper) ==
  LET r == Invoke("fn", mapper, this.value)
  IN  After(Return(IF r.kind = "throw" THEN Left(r.v) ELSE Right(r.v)), r.calls)

Right_map(this, mapper) ==
  LET r == Invoke("fn", mapper, this.value)
  IN  IF r.kind = "throw" THEN r ELSE After(Return(Right(r.v)), r.calls)

Right_mapError(this) == Return(Right(this.value))

Right_filter(this, predicate, errorFactory) ==
  LET p == Invoke("predicate", predicate, this.value)
  IN  IF p.kind = "throw" THEN p
      ELSE IF Truthy(p.v) THEN After(Return(Right(this.value)), p.calls)
      ELSE LET e == Invoke("errorFactory", errorFactory, this.value)
           IN  IF e.kind = "throw" THEN After(e, p.calls)
               ELSE After(After(Return(Left(e.v)), e.calls), p.calls)

Right_flatMap(this, mapper) == Invoke("fn", mapper, this.value)

Right_getOrElse(this) == Return(this.value)

\* a faulty variant, for comparison: getErrorOrElse that answers with the held value
Right_getErrorOrElse_Value(this, defaultError) == Return(this.value)

Right_getErrorOrElse(this, defaultError) == Return(defaultError)

Right_isRight(this) == TRUE

Right_isLeft(this) == FALSE

Right_unwrap(this) == Return(this.value)

\* a faulty variant, for comparison: the error thrown with its default message
Right_unwrapError_Default(this) == Throw(EitherUnwrapError("Either unwrap error"))

Right_unwrapError(this) ==
  Throw(EitherUnwrapError("Cannot unwrapError Right instance"))

\* the methods each class defines
LeftMethods ==
  {"map", "mapError", "filter", "flatMap", "getOrElse", "getErrorOrElse", "isRight",
   "isLeft", "unwrap", "unwrapError", "tap", "tapError", "tapBoth", "toResult"}

RightMethods ==
  {"map", "mapError", "filter", "flatMap", "getOrElse", "getErrorOrElse", "isRight",
   "isLeft", "unwrap", "unwrapError", "unwrapOrThrow"}

\* either.isRight() / either.isLeft() / either.unwrap() / either.unwrapError():
\* dynamic dispatch on the variant
isRight(either) == IF either.tag = "Right" THEN Right_isRight(either) ELSE Left_isRight(either)
isLeft(either) == IF either.tag = "Right" THEN Right_isLeft(either) ELSE Left_isLeft(either)
unwrap(either) == IF either.tag = "Right" THEN Right_unwrap(either) ELSE Left_unwrap(either)
unwrapError(either) ==
  IF either.tag = "Right" THEN Right_unwrapError(either) ELSE Left_unwrapError(either)

\* either.op(a, b) on a synchronous Either: dispatch to the variant's method,
\* a TypeError when the class does not define it
SyncOps == {"map", "mapError", "filter", "flatMap", "tap", "tapError", "tapBoth"}

Dispatch(either, op, a, b) ==
  IF either.tag = "Left"
  THEN IF op \notin LeftMethods THEN Throw(TypeError(op))
       ELSE CASE op = "map" -> Left_map(either)
              [] op = "mapError" -> Left_mapError(either, a)
              [] op = "filter" -> Left_filter(either)
              [] op = "flatMap" -> Left_flatMap(either)
              [] op = "tap" -> Left_tap(either)
              [] op = "tapError" -> Left_tapError(either, a)
              [] op = "tapBoth" -> Left_tapBoth(either, a, b)
  ELSE IF op \notin RightMethods THEN Throw(TypeError(op))
       ELSE CASE op = "map" -> Right_map(either, a)
              [] op = "mapError" -> Right_mapError(either)
              [] op = "filter" -> Right_filter(either, a, b)
              [] op = "flatMap" -> Right_flatMap(either, a)

\* either.getOrElse(d) / getErrorOrElse(d) / toResult() called by a script
AccessOps == {"getOrElse", "getErrorOrElse", "toResult"}

Access(either, op, d) ==
  IF either.tag = "Left"
  THEN IF op \notin LeftMethods THEN Throw(TypeError(op))
       ELSE CASE op = "getOrElse" -> Left_getOrElse(either, d)
              [] op = "getErrorOrElse" -> Left_getErrorOrElse(either)
              [] op = "toResult" -> Left_toResult(either)
  ELSE IF op \notin RightMethods THEN Throw(TypeError(op))
       ELSE CASE op = "getOrElse" -> Right_getOrElse(either)
              [] op = "getErrorOrElse" -> Right_getErrorOrElse(either, d)

\* either.isRight() / isLeft() / unwrap() / unwrapError() called by a script:
\* what the call returns or throws
QueryOps == {"isRight", "isLeft", "unwrap", "unwrapError"}

Query(either, op) ==
  CASE op = "isRight" -> Return(Bool(isRight(either)))
    [] op = "isLeft" -> Return(Bool(isLeft(either)))
    [] op = "unwrap" -> unwrap(either)
    [] op = "unwrapError" -> unwrapError(either)

\* --------------------------------------------- AsyncEither (async-either.ts)
\* states of a promise
Pending == [st |-> "pending"]
Fulfilled(v) == [st |-> "fulfilled", v |-> v]
Rejected(x) == [st |-> "rejected", v |-> x]
Settled(p) == p.st \in {"fulfilled", "rejected"}

\* a faulty variant, for comparison: every fulfilment value is wrapped in a Right, an Either too
ConstructorThen_AlwaysWraps(s) == IF s.st = "fulfilled" THEN Fulfilled(right(s.v)) ELSE s

\* a faulty variant, for comparison: a Left that a promise fulfilled with is wrapped
ConstructorThen_WrapsLeft(s) ==
  IF s.st = "fulfilled"
  THEN Fulfilled(IF InstanceOfEither(s.v) /\ s.v.tag = "Right" THEN s.v ELSE right(s.v))
  ELSE s

\* Promise.resolve(promiseOrEither).then((result) => result instanceof Either
\*   ? result : right(result))
ConstructorThen(s) ==
  IF s.st = "fulfilled"
  THEN Fulfilled(IF InstanceOfEither(s.v) THEN s.v ELSE right(s.v))
  ELSE s

\* a faulty variant, for comparison: the constructor without its catch
ConstructorCatch_Missing(s) == s

\* .catch((error) => left(error))
ConstructorCatch(s) == IF s.st = "rejected" THEN Fulfilled(left(s.v)) ELSE s

\* what this.promise settles to once the constructor's argument has settled to s
Constructor(s) == ConstructorCatch(ConstructorThen(s))

\* the methods the class AsyncEither defines
AsyncEitherMethods ==
  {"then", "catch", "map", "flatMap", "mapError", "recover", "getOrElse",
   "getErrorOrElse", "tap", "tapError", "tapBoth", "isRight", "isLeft", "toResult"}

Combinators ==
  {"map", "flatMap", "mapError", "recover", "filter", "tap", "tapError", "tapBoth"}

\* One step of an async transform: it returns v, throws v, invokes its
\* callback with x and awaits what the callback gives back, or (tapBoth)
\* derives a wrapper with this.tap / this.tapError and awaits it.
DoReturn(v) == [do |-> "return", v |-> v]
DoThrow(x) == [do |-> "throw", v |-> x]
DoCall(role, x) == [do |-> "call", role |-> role, x |-> x]
DoDerive(op, role) == [do |-> "derive", op |-> op, role |-> role]

\* the transform of each combinator up to its await
\* a faulty variant, for comparison: map without its isLeft() guard
Start_map_NoGuard(either) ==
  DoCall("fn", IF isLeft(either) THEN unwrapError(either).v ELSE unwrap(either).v)

Start_map(either) ==
  IF isLeft(either) THEN DoReturn(left(unwrapError(either).v))
  ELSE DoCall("fn", unwrap(either).v)

Start_flatMap(either) ==
  IF isLeft(either) THEN DoReturn(left(unwrapError(either).v))
  ELSE DoCall("fn", unwrap(either).v)

Start_mapError(either) ==
  IF isRight(either) THEN DoReturn(right(unwrap(either).v))
  ELSE DoCall("fn", unwrapError(either).v)

\* a faulty variant, for comparison: recover hands fn the error instead of the Either
Start_recover_ErrorOnly(either) ==
  IF isRight(either) THEN DoReturn(right(unwrap(either).v))
  ELSE DoCall("fn", unwrapError(either).v)

Start_recover(either) ==
  IF isRight(either) THEN DoReturn(right(unwrap(either).v))
  ELSE DoCall("fn", either)

Start_tap(either, role) ==
  IF ~isRight(either) THEN DoReturn(either)
  ELSE DoCall(role, unwrap(either).v)

Start_tapError(either, role) ==
  IF ~isLeft(either) THEN DoReturn(either)
  ELSE DoCall(role, unwrapError(either).v)

\* rightFn, leftFn: whether the argument was given (!!rightFn, !!leftFn)
Start_tapBoth(either, rightFn, leftFn) ==
  IF isRight(either) /\ rightFn THEN DoDerive("tap", "rightFn")
  ELSE IF isLeft(either) /\ leftFn THEN DoDerive("tapError", "leftFn")
  ELSE DoReturn(either)

Start(m, either) ==
  CASE m.by = "map" -> Start_map(either)
    [] m.by = "flatMap" -> Start_flatMap(either)
    [] m.by = "mapError" -> Start_mapError(either)
    [] m.by = "recover" -> Start_recover(either)
    [] m.by = "tap" -> Start_tap(either, m.role)
    [] m.by = "tapError" -> Start_tapError(either, m.role)
    [] m.by = "tapBoth" -> Start_tapBoth(either, m.rightFn, m.leftFn)

\* the transform of each combinator after its await: got is what the awaited
\* value settled to (rejected when the callback threw)
\* a faulty variant, for comparison: map treats what a failed callback gave as its result
Resume_map_Swallows(either, got) == DoReturn(right(got.v))

Resume_map(either, got) ==
  IF got.st = "rejected" THEN DoThrow(got.v) ELSE DoReturn(right(got.v))

\* a faulty variant, for comparison: flatMap wraps the callback's Either like map does
Resume_flatMap_Wraps(either, got) ==
  IF got.st = "rejected" THEN DoThrow(got.v) ELSE DoReturn(right(got.v))

Resume_flatMap(either, got) ==
  IF got.st = "rejected" THEN DoThrow(got.v) ELSE DoReturn(got.v)

\* a faulty variant, for comparison: mapError builds a Right from the mapped error
Resume_mapError_Right(either, got) ==
  IF got.st = "rejected" THEN DoThrow(got.v) ELSE DoReturn(right(got.v))

Resume_mapError(either, got) ==
  IF got.st = "rejected" THEN DoThrow(got.v) ELSE DoReturn(left(got.v))

Resume_recover(either, got) ==
  IF got.st = "rejected" THEN DoThrow(got.v) ELSE DoReturn(got.v)

\* a faulty variant, for comparison: tap without its try / catch
Resume_tap_Uncaught(either, got) ==
  IF got.st = "rejected" THEN DoThrow(got.v) ELSE DoReturn(either)

Resume_tap(either, got) == DoReturn(either)

Resume_tapError(either, got) == DoReturn(either)

Resume_tapBoth(either, got) ==
  IF got.st = "rejected" THEN DoThrow(got.v) ELSE DoReturn(either)

Resume(op, either, got) ==
  CASE op = "map" -> Resume_map(either, got)
    [] op = "flatMap" -> Resume_flatMap(either, got)
    [] op = "mapError" -> Resume_mapError(either, got)
    [] op = "recover" -> Resume_recover(either, got)
    [] op = "tap" -> Resume_tap(either, got)
    [] op = "tapError" -> Resume_tapError(either, got)
    [] op = "tapBoth" -> Resume_tapBoth(either, got)

\* console.error in the catch block of tap / tapError
Logs(op, got) ==
  IF got.st = "rejected" /\ op \in {"tap", "tapError"}
  THEN <<[at |-> op, error |-> got.v]>>
  ELSE <<>>

\* ------------------------------------------------------------------ state
VARIABLES
  world,      \* "sync" or "async": the kind of script this run is
  sync,       \* the synchronous script: its Either, the calls made, the last outcome
  n,          \* AsyncEither wrappers created so far
  made,       \* per wrapper: how it was created (combinator, receiver, callbacks)
  arg,        \* per wrapper: state of the promise given to its constructor
  promise,    \* per wrapper: state of this.promise
  frame,      \* per wrapper: where its async transform stands
  reactions,  \* per wrapper: jobs registered on this.promise while it is pending
  queue,      \* the host's microtask queue
  calls,      \* callback invocations of the asynchronous script, in order
  console,    \* console.error calls
  lastCall,   \* the last call the asynchronous script made
  inflight,   \* wrappers whose callback returned a promise that has not settled yet
  inTask,     \* TRUE while a task of the script runs, FALSE while microtasks drain
  observers   \* then / catch / getOrElse / getErrorOrElse calls and what they received

vars ==
  <<world, sync, n, made, arg, promise, frame, reactions, queue, calls, console, lastCall,
    inflight, inTask, observers>>

asyncVars ==
  <<n, made, arg, promise, frame, reactions, queue, calls, console, lastCall, inflight,
    inTask, observers>>

\* A script makes MaxWrappers wrappers; the script that derives wrappers from
\* one source side by side makes one more.
Wrappers == 1..(MaxWrappers + 1)
Capacity == IF world = "siblings" THEN MaxWrappers + 1 ELSE MaxWrappers

\* how a wrapper was created: the combinator, the receiver, the role of its
\* callback, and for tapBoth which of its two arguments were given
Made(by, parent, role, rightFn, leftFn) ==
  [by |-> by, parent |-> parent, role |-> role, rightFn |-> rightFn, leftFn |-> leftFn]
NotMade == Made("none", 0, "fn", FALSE, FALSE)
Source(by) == Made(by, 0, "fn", FALSE, FALSE)

\* an async transform: not started, awaiting (a value, the promise a callback
\* returned, the AsyncEither a callback returned or a derived wrapper), done
Frame(pc, on, target, src, got) ==
  [pc |-> pc, on |-> on, target |-> target, src |-> src, got |-> got]
Idle == Frame("idle", "none", 0, Pending, Pending)
Job(kind, w) == [job |-> kind, w |-> w]
NoScriptCall == [op |-> "none", recv |-> 0, ret |-> 0, thrown |-> Undefined]

\* ------------------------------------------------------- synchronous script
SyncCallbacks(op) ==
  CASE op = "filter" -> {Callback("isOne", h) : h \in {"returns", "throws"}}
    [] op = "tapBoth" -> {Callback("succ", h) : h \in {"returns", "throws"}} \cup {NoCallback}
    [] op = "flatMap" -> {Callback(f, h) : f \in {"wrap", "fail"}, h \in {"returns", "throws"}}
    [] OTHER -> {Callback(f, h) : f \in {"succ", "id"}, h \in {"returns", "throws"}}

SyncSecond(op) ==
  CASE op = "filter" -> {Callback("succ", h) : h \in {"returns", "throws"}}
    [] op = "tapBoth" -> {Callback("id", h) : h \in {"returns", "throws"}} \cup {NoCallback}
    [] OTHER -> {NoCallback}

NoCall == [op |-> "none", recv |-> Undefined, a |-> NoCallback, b |-> NoCallback,
           d |-> Undefined, out |-> Return(Undefined)]

SyncStart(e) == [start |-> e, sut |-> e, ops |-> <<>>, calls |-> <<>>, last |-> NoCall]

\* const next = sut.op(a, b): the script goes on with the returned Either;
\* when the call throws there is no returned Either and sut stays
SyncCall(op, a, b) ==
  /\ world = "sync"
  /\ Len(sync.ops) < MaxOps
  /\ InstanceOfEither(sync.sut)
  /\ LET out == Dispatch(sync.sut, op, a, b)
     IN  sync' = [sync EXCEPT
                    !.sut = IF out.kind = "return" THEN out.v ELSE @,
                    !.ops = Append(@, op),
                    !.calls = @ \o out.calls,
                    !.last = [op |-> op, recv |-> sync.sut, a |-> a, b |-> b,
                              d |-> Undefined, out |-> out]]
  /\ UNCHANGED <<world, asyncVars>>

\* const answer = sut.isRight() / isLeft() / unwrap() / unwrapError(): the
\* script keeps its Either, whatever the call returns or throws
SyncQuery(op) ==
  /\ world = "sync"
  /\ Len(sync.ops) < MaxOps
  /\ InstanceOfEither(sync.sut)
  /\ sync' = [sync EXCEPT
                !.ops = Append(@, op),
                !.last = [op |-> op, recv |-> sync.sut, a |-> NoCallback, b |-> NoCallback,
                          d |-> Undefined, out |-> Query(sync.sut, op)]]
  /\ UNCHANGED <<world, asyncVars>>

\* the defaults a script passes: getOrElse(d), getErrorOrElse(d); toResult()
\* takes no argument
SyncDefaults(op) == IF op = "toResult" THEN {Undefined} ELSE PlainValues

\* const answer = sut.getOrElse(d) / getErrorOrElse(d) / toResult(): the
\* script keeps its Either
SyncAccess(op, d) ==
  /\ world = "sync"
  /\ Len(sync.ops) < MaxOps
  /\ InstanceOfEither(sync.sut)
  /\ sync' = [sync EXCEPT
                !.ops = Append(@, op),
                !.last = [op |-> op, recv |-> sync.sut, a |-> NoCallback, b |-> NoCallback,
                          d |-> d, out |-> Access(sync.sut, op, d)]]
  /\ UNCHANGED <<world, asyncVars>>

\* ------------------------------------------------------ asynchronous script
\* The host runs one task at a time and drains the microtask queue after it:
\* script code runs in a task, that is before any microtask of this turn has
\* run, or once the queue is empty.
ScriptMayRun == world # "sync" /\ (inTask \/ queue = <<>>)

\* a faulty variant, for comparison: a reaction on a pending promise is lost
ThenReactions_Drops(rs, p, job) == rs

\* a faulty variant, for comparison: the latest reaction is put first
ThenReactions_Lifo(rs, p, job) ==
  IF Settled(promise[p]) THEN rs ELSE [rs EXCEPT ![p] = <<job>> \o @]

\* a faulty variant, for comparison: a reaction is registered twice
ThenReactions_Twice(rs, p, job) ==
  IF Settled(promise[p]) THEN rs ELSE [rs EXCEPT ![p] = Append(Append(@, job), job)]

\* promise.then(job) on wrapper p's promise: queued at once when the promise
\* has settled, kept as a reaction of the promise while it is pending
ThenReactions(rs, p, job) ==
  IF Settled(promise[p]) THEN rs ELSE [rs EXCEPT ![p] = Append(@, job)]

ThenQueue(q, p, job) == IF Settled(promise[p]) THEN Append(q, job) ELSE q

\* new AsyncEither(either): fromEither(either), asyncRight(value) =
\* fromEither(right(value)), asyncLeft(error) = fromEither(left(error)).
\* Promise.resolve(either) is fulfilled, so the constructor's reaction is queued.
fromEither(either) ==
  /\ ScriptMayRun
  /\ n = 0
  /\ n' = n + 1
  /\ made' = [made EXCEPT ![n + 1] = Source("fromEither")]
  /\ arg' = [arg EXCEPT ![n + 1] = Fulfilled(either)]
  /\ queue' = Append(queue, Job("ctor", n + 1))
  /\ lastCall' = [op |-> "fromEither", recv |-> 0, ret |-> n + 1, thrown |-> Undefined]
  /\ inTask' = TRUE
  /\ UNCHANGED <<world, sync, observers, promise, frame, reactions, calls, console, inflight>>

\* tryCatch(promise) = new AsyncEither(promise), and fromPromise(promise) =
\* tryCatch(promise), on a promise of the host that is still pending
SourceApis == {"tryCatch", "fromPromise"}

tryCatch(api) ==
  /\ ScriptMayRun
  /\ n = 0
  /\ n' = n + 1
  /\ made' = [made EXCEPT ![n + 1] = Source("tryCatch")]
  /\ arg' = [arg EXCEPT ![n + 1] = Pending]
  /\ lastCall' = [op |-> api, recv |-> 0, ret |-> n + 1, thrown |-> Undefined]
  /\ inTask' = TRUE
  /\ UNCHANGED <<world, sync, observers, promise, frame, reactions, queue, calls, console, inflight>>

\* a task of the host settles the promise a wrapper was built from
SettleSource(w, s) ==
  /\ world # "sync"
  /\ queue = <<>>
  /\ w <= n
  /\ made[w].by = "tryCatch"
  /\ arg[w] = Pending
  /\ arg' = [arg EXCEPT ![w] = s]
  /\ queue' = Append(queue, Job("ctor", w))
  /\ inTask' = FALSE
  /\ UNCHANGED <<world, sync, observers, n, made, promise, frame, reactions, calls, console, lastCall,
                 inflight>>

\* tapBoth derives one more wrapper (this.tap / this.tapError) when its
\* transform runs: the slot after its own is kept for it
Slots(op, rightFn, leftFn) == IF op = "tapBoth" /\ (rightFn \/ leftFn) THEN 2 ELSE 1

\* chain(transform): this.promise.then(transform), then new AsyncEither(...)
\* around the promise that then returns.  tapBoth does the same two steps
\* itself: new AsyncEither(this.promise.then(async (either) => ...)).
chain(p, op, rightFn, leftFn) ==
  /\ n + Slots(op, rightFn, leftFn) <= Capacity
  /\ n' = n + Slots(op, rightFn, leftFn)
  /\ made' = [w \in Wrappers |->
                IF w = n + 1 THEN Made(op, p, "fn", rightFn, leftFn)
                ELSE IF w = n + 2 /\ Slots(op, rightFn, leftFn) = 2 THEN Source("reserved")
                ELSE made[w]]
  /\ reactions' = ThenReactions(reactions, p, Job("transform", n + 1))
  /\ queue' = ThenQueue(queue, p, Job("transform", n + 1))
  /\ lastCall' = [op |-> op, recv |-> p, ret |-> n + 1, thrown |-> Undefined]

\* a faulty variant, for comparison: a combinator that invokes its callback
\* before it returns
Call_Invokes(p, op, rightFn, leftFn) ==
  /\ ScriptMayRun
  /\ p <= n
  /\ made[p].by # "reserved"
  /\ made[p].role = "fn"
  /\ op \in AsyncEitherMethods
  /\ chain(p, op, rightFn, leftFn)
  /\ calls' = Append(calls, [w |-> n + 1, role |-> "fn", cb |-> Callback("succ", "returns"),
                              arg |-> Undefined])
  /\ inTask' = TRUE
  /\ UNCHANGED <<world, sync, observers, arg, promise, frame, console, inflight>>

\* p.op(...) by the script: a TypeError to the caller when AsyncEither does
\* not define op, else the new wrapper
Call(p, op, rightFn, leftFn) ==
  /\ ScriptMayRun
  /\ p <= n
  /\ made[p].by # "reserved"
  /\ made[p].role = "fn"
  /\ IF op \notin AsyncEitherMethods
     THEN /\ lastCall' = [op |-> op, recv |-> p, ret |-> 0, thrown |-> TypeError(op)]
          /\ UNCHANGED <<n, made, reactions, queue>>
     ELSE chain(p, op, rightFn, leftFn)
  /\ inTask' = TRUE
  /\ UNCHANGED <<world, sync, observers, arg, promise, frame, calls, console, inflight>>

\* new AsyncEither(p) on an AsyncEither p: Promise.resolve(p) finds a
\* thenable and queues the job that will call p.then(resolve, reject)
Wrap(p) ==
  /\ ScriptMayRun
  /\ p <= n
  /\ made[p].by # "reserved"
  /\ made[p].role = "fn"
  /\ n < Capacity
  /\ n' = n + 1
  /\ made' = [made EXCEPT ![n + 1] = Made("constructor", p, "fn", FALSE, FALSE)]
  /\ queue' = Append(queue, Job("adopt", n + 1))
  /\ lastCall' = [op |-> "constructor", recv |-> p, ret |-> n + 1, thrown |-> Undefined]
  /\ inTask' = TRUE
  /\ UNCHANGED <<world, sync, observers, arg, promise, frame, reactions, calls, console,
                 inflight>>

\* a faulty variant, for comparison: the transform's outcome settles the
\* receiver's promise, as if the new wrapper shared it
Finish_OnReceiver(w, step, q) ==
  /\ arg' = [arg EXCEPT ![made[w].parent] =
               IF step.do = "throw" THEN Rejected(step.v) ELSE Fulfilled(step.v)]
  /\ queue' = Append(q, Job("ctor", made[w].parent))

\* the async function returns v or throws x: the promise it returned settles,
\* and the reaction of the constructor of w is queued
Finish(w, step, q) ==
  /\ arg' = [arg EXCEPT ![w] = IF step.do = "throw" THEN Rejected(step.v) ELSE Fulfilled(step.v)]
  /\ queue' = Append(q, Job("ctor", w))

IsHead(kind) == world # "sync" /\ queue # <<>> /\ Head(queue).job = kind

\* microtask: the constructor's reaction of w; this.promise settles and the
\* reactions registered on it are queued in registration order
RunCtor ==
  /\ IsHead("ctor")
  /\ LET w == Head(queue).w
     IN  /\ promise' = [promise EXCEPT ![w] = Constructor(arg[w])]
         /\ queue' = Tail(queue) \o reactions[w]
         /\ reactions' = [reactions EXCEPT ![w] = <<>>]
  /\ inTask' = FALSE
  /\ UNCHANGED <<world, sync, observers, n, made, arg, frame, calls, console, lastCall, inflight>>

\* microtask: p.then(resolve, reject) for the wrapper w built around p, that
\* is p.promise.then(resolve, reject)
RunAdopt ==
  /\ IsHead("adopt")
  /\ LET w == Head(queue).w
     IN  /\ reactions' = ThenReactions(reactions, made[w].parent, Job("forward", w))
         /\ queue' = ThenQueue(Tail(queue), made[w].parent, Job("forward", w))
  /\ inTask' = FALSE
  /\ UNCHANGED <<world, sync, observers, n, made, arg, promise, frame, calls, console, lastCall,
                 inflight>>

\* microtask: resolve(either) / reject(error): the promise given to the
\* constructor of w settles as p.promise did
RunForward ==
  /\ IsHead("forward")
  /\ LET w == Head(queue).w
     IN  /\ arg' = [arg EXCEPT ![w] = promise[made[w].parent]]
         /\ queue' = Append(Tail(queue), Job("ctor", w))
  /\ inTask' = FALSE
  /\ UNCHANGED <<world, sync, observers, n, made, promise, frame, reactions, calls, console,
                 lastCall, inflight>>

\* microtask: transform(either) of wrapper w, when it ends without invoking a
\* callback, or (tapBoth) derives a wrapper and awaits it
RunTransform ==
  /\ IsHead("transform")
  /\ LET w == Head(queue).w
         p == made[w].parent
         step == Start(made[w], promise[p].v)
     IN  IF promise[p].st = "rejected"
         THEN \* then(transform) without onrejected passes the rejection on
              /\ Finish(w, DoThrow(promise[p].v), Tail(queue))
              /\ frame' = [frame EXCEPT ![w].pc = "done"]
              /\ UNCHANGED <<made, reactions>>
         ELSE /\ step.do # "call"
              /\ IF step.do = "derive"
                 THEN \* await this.tap(rightFn) / await this.tapError(leftFn)
                      /\ made' = [made EXCEPT ![w + 1] =
                                    Made(step.op, p, step.role, FALSE, FALSE)]
                      /\ queue' = Append(Tail(queue), Job("transform", w + 1))
                      /\ reactions' = [reactions EXCEPT ![w + 1] = Append(@, Job("resume", w))]
                      /\ frame' = [frame EXCEPT ![w] =
                                     Frame("awaiting", "wrapper", w + 1, Pending, Pending)]
                      /\ UNCHANGED arg
                 ELSE /\ Finish(w, step, Tail(queue))
                      /\ frame' = [frame EXCEPT ![w].pc = "done"]
                      /\ UNCHANGED <<made, reactions>>
  /\ inTask' = FALSE
  /\ UNCHANGED <<world, sync, observers, n, promise, calls, console, lastCall, inflight>>

\* the callbacks the script may have passed to a combinator
Hows == {"returns", "throws", "resolves", "rejects"}

Callbacks(op) ==
  CASE op = "flatMap" ->
         {Callback("wrap", "returns"), Callback("fail", "resolves"),
          Callback("wrap", "returnsAsync"), Callback("fail", "returnsAsync"),
          Callback("succ", "throws"), Callback("succ", "rejects")}
    [] op = "recover" ->
         {Callback("wrap", "returnsAsync"), Callback("fail", "returnsAsync"),
          Callback("succ", "throws"), Callback("succ", "rejects")}
    [] OTHER -> {Callback("succ", h) : h \in Hows}

\* a faulty variant, for comparison: tapError calls fn without await
Awaits_NotInTapError(op) == op # "tapError"

\* a faulty variant, for comparison: tap calls fn without await
Awaits_NotInTap(op) == op # "tap"

\* whether the transform of op awaits what its callback gives back:
\* every combinator calls its callback as `await fn(...)`
Awaits(op) == TRUE

\* a promise object, as a value that was not awaited
PromiseObject == [tag |-> "Promise"]

AllCallbacks == UNION {Callbacks(op) : op \in Combinators}

\* microtask: transform(either) of wrapper w invokes its callback cb, and runs
\* to its await, or to its end when cb throws
RunCallback(cb) ==
  /\ IsHead("transform")
  /\ LET w == Head(queue).w
         p == made[w].parent
         op == made[w].by
         either == promise[p].v
         step == Start(made[w], either)
         result == Apply(cb.fn, step.x)
     IN  /\ promise[p].st = "fulfilled"
         /\ step.do = "call"
         /\ cb \in Callbacks(op)
         /\ calls' = Append(calls, [w |-> w, role |-> step.role, cb |-> cb, arg |-> step.x])
         /\ inflight' = IF cb.how \in {"resolves", "rejects"} THEN inflight \cup {w} ELSE inflight
         /\ CASE cb.how = "throws" ->
                   /\ Finish(w, Resume(op, either, Rejected(result)), Tail(queue))
                   /\ console' = console \o Logs(op, Rejected(result))
                   /\ frame' = [frame EXCEPT ![w] =
                                  Frame("done", "none", 0, Pending, Rejected(result))]
              [] cb.how = "returns" ->
                   \* await of a value that is no promise: one microtask later
                   /\ frame' = [frame EXCEPT ![w] =
                                  Frame("awaiting", "value", 0, Pending, Fulfilled(result))]
                   /\ queue' = Append(Tail(queue), Job("resume", w))
                   /\ UNCHANGED <<arg, console>>
              [] cb.how \in {"resolves", "rejects"} /\ Awaits(op) ->
                   \* await of a promise of the host that is still pending
                   /\ frame' = [frame EXCEPT ![w] =
                                  Frame("awaiting", "callback", 0, Pending, Pending)]
                   /\ queue' = Tail(queue)
                   /\ UNCHANGED <<arg, console>>
              [] cb.how \in {"resolves", "rejects"} /\ ~Awaits(op) ->
                   \* the promise is used as a value, nobody waits for it
                   /\ Finish(w, Resume(op, either, Fulfilled(PromiseObject)), Tail(queue))
                   /\ frame' = [frame EXCEPT ![w] =
                                  Frame("done", "none", 0, Pending, Fulfilled(PromiseObject))]
                   /\ UNCHANGED console
              [] cb.how = "returnsAsync" ->
                   \* await of AsyncEither.fromEither(result), just constructed:
                   \* its constructor's reaction is queued
                   /\ frame' = [frame EXCEPT ![w] =
                                  Frame("awaiting", "asyncEither", 0, Fulfilled(result), Pending)]
                   /\ queue' = Append(Tail(queue), Job("inner", w))
                   /\ UNCHANGED <<arg, console>>
  /\ inTask' = FALSE
  /\ UNCHANGED <<world, sync, observers, n, made, promise, reactions, lastCall>>

\* microtask: the constructor's reaction of the AsyncEither that the callback
\* of w returned; its promise settles and the await of w is queued
RunInner ==
  /\ IsHead("inner")
  /\ LET w == Head(queue).w
     IN  /\ frame' = [frame EXCEPT ![w].got = Constructor(frame[w].src)]
         /\ queue' = Append(Tail(queue), Job("resume", w))
  /\ inTask' = FALSE
  /\ UNCHANGED <<world, sync, observers, n, made, arg, promise, reactions, calls, console, lastCall,
                 inflight>>

\* microtask: the transform of w goes on after its await
RunResume ==
  /\ IsHead("resume")
  /\ LET w == Head(queue).w
         op == made[w].by
         got == IF frame[w].on = "wrapper" THEN promise[frame[w].target] ELSE frame[w].got
     IN  /\ Finish(w, Resume(op, promise[made[w].parent].v, got), Tail(queue))
         /\ console' = console \o Logs(op, got)
         /\ frame' = [frame EXCEPT ![w] = [@ EXCEPT !.pc = "done", !.got = got]]
  /\ inTask' = FALSE
  /\ UNCHANGED <<world, sync, observers, n, made, promise, reactions, calls, lastCall, inflight>>

\* the invocation that the transform of w made
CallOf(w) == calls[CHOOSE i \in 1..Len(calls) : calls[i].w = w]

\* a task of the host settles the promise a callback returned: fulfilled or
\* rejected with the callback's result; the transform that awaits it is queued
SettleCallback(w) ==
  /\ world # "sync"
  /\ queue = <<>>
  /\ w \in inflight
  /\ inflight' = inflight \ {w}
  /\ LET c == CallOf(w)
         got == IF c.cb.how = "rejects" THEN Rejected(Apply(c.cb.fn, c.arg))
                ELSE Fulfilled(Apply(c.cb.fn, c.arg))
     IN  IF frame[w].pc = "awaiting" /\ frame[w].on = "callback"
         THEN /\ frame' = [frame EXCEPT ![w].got = got]
              /\ queue' = Append(queue, Job("resume", w))
         ELSE UNCHANGED <<frame, queue>>
  /\ inTask' = FALSE
  /\ UNCHANGED <<world, sync, observers, n, made, arg, promise, reactions, calls, console, lastCall>>

\* ------------------------------------------------- the promise surface
\* promise.then(onfulfilled, onrejected) on a promise settled to s: the
\* handler that is invoked (each argument is given or not), what it is handed,
\* and what the promise that then() returned settles to. A handler here
\* returns nothing; without the handler the settlement passes through.
PromiseThen(s, onfulfilled, onrejected) ==
  LET given == IF s.st = "fulfilled" THEN onfulfilled ELSE onrejected
  IN  [handler |-> IF ~given THEN "none"
                   ELSE IF s.st = "fulfilled" THEN "onfulfilled" ELSE "onrejected",
       got |-> s.v,
       invoked |-> 0,
       out |-> IF given THEN Fulfilled(Undefined) ELSE s]

\* a faulty variant, for comparison: then() with its two handlers swapped
AsyncEither_then_Swapped(s, onfulfilled, onrejected) ==
  PromiseThen(s, onrejected, onfulfilled)

\* then(onfulfilled, onrejected) { return this.promise.then(onfulfilled, onrejected) }
AsyncEither_then(s, onfulfilled, onrejected) == PromiseThen(s, onfulfilled, onrejected)

\* catch(onrejected) { return this.promise.catch(onrejected) }
AsyncEither_catch(s, onrejected) == PromiseThen(s, FALSE, onrejected)

\* The default handed to getOrElse / getErrorOrElse: a plain value, or a
\* zero-argument function that returns the value or a promise of it.
Defaults == {"value", "returns", "resolves"}
DefaultValue == Val(MaxVal)

\* defaultValue instanceof Function ? defaultValue() : defaultValue
\* as the return value of the async function: a returned promise is followed
OrElse(dflt) ==
  [handler |-> "none",
   got |-> Undefined,
   invoked |-> IF dflt = "value" THEN 0 ELSE 1,
   out |-> IF dflt = "resolves" THEN Pending ELSE Fulfilled(DefaultValue)]

Held(v) == [handler |-> "none", got |-> Undefined, invoked |-> 0, out |-> Fulfilled(v)]

\* a faulty variant, for comparison: getOrElse that evaluates its default first
AsyncEither_getOrElse_Eager(either, dflt) ==
  IF isRight(either) THEN [OrElse(dflt) EXCEPT !.out = Fulfilled(unwrap(either).v)]
  ELSE OrElse(dflt)

\* getOrElse after `const either = await this.promise`
AsyncEither_getOrElse(either, dflt) ==
  IF isRight(either) THEN Held(unwrap(either).v) ELSE OrElse(dflt)

\* getErrorOrElse after `const either = await this.promise`
AsyncEither_getErrorOrElse(either, dflt) ==
  IF isLeft(either) THEN Held(unwrapError(either).v) ELSE OrElse(dflt)

\* isRight() / isLeft() after `const either = await this.promise`
AsyncEither_isRight(either) == Held(Bool(isRight(either)))

AsyncEither_isLeft(either) == Held(Bool(isLeft(either)))

\* toResult after `const eitherInstance = await this.promise`:
\* return eitherInstance.toResult(); what that call throws rejects the
\* promise of the async function
AsyncEither_toResult(either) ==
  LET r == Access(either, "toResult", Undefined)
  IN  [Held(r.v) EXCEPT !.out = IF r.kind = "throw" THEN Rejected(r.v) ELSE Fulfilled(r.v)]

ObserverApis ==
  {"then", "catch", "getOrElse", "getErrorOrElse", "isRight", "isLeft", "toResult"}

\* what a call of one of these on wrapper p is waiting for
Observer(p, api, onfulfilled, onrejected, dflt) ==
  [on |-> p, api |-> api, onfulfilled |-> onfulfilled, onrejected |-> onrejected,
   dflt |-> dflt, st |-> "waiting", handler |-> "none", got |-> Undefined, invoked |-> 0,
   out |-> Pending]

\* the reaction of an observer once this.promise has settled to s. An await
\* of a rejected promise throws inside the async function.
React(o, s) ==
  CASE o.api = "then" -> AsyncEither_then(s, o.onfulfilled, o.onrejected)
    [] o.api = "catch" -> AsyncEither_catch(s, o.onrejected)
    [] o.api = "getOrElse" ->
         IF s.st = "rejected" THEN Held(Undefined) ELSE AsyncEither_getOrElse(s.v, o.dflt)
    [] o.api = "getErrorOrElse" ->
         IF s.st = "rejected" THEN Held(Undefined) ELSE AsyncEither_getErrorOrElse(s.v, o.dflt)
    [] o.api = "isRight" ->
         IF s.st = "rejected" THEN Held(Undefined) ELSE AsyncEither_isRight(s.v)
    [] o.api = "isLeft" ->
         IF s.st = "rejected" THEN Held(Undefined) ELSE AsyncEither_isLeft(s.v)
    [] o.api = "toResult" ->
         IF s.st = "rejected" THEN Held(Undefined) ELSE AsyncEither_toResult(s.v)

\* p.then(...) / p.catch(...) / p.getOrElse(d) / p.getErrorOrElse(d) by the
\* script: a reaction on this.promise, and a promise handed back
Observe(p, api, onfulfilled, onrejected, dflt) ==
  /\ ScriptMayRun
  /\ p <= n
  /\ made[p].by # "reserved"
  /\ made[p].role = "fn"
  /\ Len(observers) < MaxObservers
  /\ observers' = Append(observers, Observer(p, api, onfulfilled, onrejected, dflt))
  /\ reactions' = ThenReactions(reactions, p, Job("observe", Len(observers) + 1))
  /\ queue' = ThenQueue(queue, p, Job("observe", Len(observers) + 1))
  /\ inTask' = TRUE
  /\ UNCHANGED <<world, sync, n, made, arg, promise, frame, calls, console, lastCall, inflight>>

\* microtask: the reaction of an observer
RunObserve ==
  /\ IsHead("observe")
  /\ LET k == Head(queue).w
         o == observers[k]
         r == React(o, promise[o.on])
     IN  observers' = [observers EXCEPT ![k] =
                         [o EXCEPT !.st = IF r.out = Pending THEN "producing" ELSE "delivered",
                                   !.handler = r.handler, !.got = r.got,
                                   !.invoked = r.invoked, !.out = r.out]]
  /\ queue' = Tail(queue)
  /\ inTask' = FALSE
  /\ UNCHANGED <<world, sync, n, made, arg, promise, frame, reactions, calls, console,
                 lastCall, inflight>>

\* a task of the host fulfils the promise that a default function returned
SettleProducer(k) ==
  /\ world # "sync"
  /\ queue = <<>>
  /\ k <= Len(observers)
  /\ observers[k].st = "producing"
  /\ observers' = [observers EXCEPT ![k] =
                     [@ EXCEPT !.st = "delivered", !.out = Fulfilled(DefaultValue)]]
  /\ inTask' = FALSE
  /\ UNCHANGED <<world, sync, n, made, arg, promise, frame, reactions, queue, calls, console,
                 lastCall, inflight>>

\* ------------------------------------------------------------ the scripts
SourceOutcomes ==
  {Fulfilled(v) : v \in PlainValues \cup Eithers(PlainValues)}
  \cup {Rejected(x) : x \in PlainValues}

\* nothing constructed, nothing registered, nothing queued
Blank ==
  /\ n = 0
  /\ made = [w \in Wrappers |-> NotMade]
  /\ arg = [w \in Wrappers |-> Pending]
  /\ promise = [w \in Wrappers |-> Pending]
  /\ frame = [w \in Wrappers |-> Idle]
  /\ reactions = [w \in Wrappers |-> <<>>]
  /\ queue = <<>>
  /\ calls = <<>>
  /\ console = <<>>
  /\ lastCall = NoScriptCall
  /\ inflight = {}
  /\ inTask = TRUE
  /\ observers = <<>>

Init ==
  /\ \/ world = "sync" /\ sync \in {SyncStart(e) : e \in Eithers(PlainValues)}
     \/ world = "async" /\ sync = SyncStart(Right(Val(1)))
  /\ Blank

Next ==
  \/ \E op \in SyncOps : \E a \in SyncCallbacks(op) : \E b \in SyncSecond(op) :
       SyncCall(op, a, b)
  \/ \E op \in QueryOps : SyncQuery(op)
  \/ \E op \in AccessOps : \E d \in SyncDefaults(op) : SyncAccess(op, d)
  \/ \E e \in Eithers(PlainValues) : fromEither(e)
  \/ \E api \in SourceApis : tryCatch(api)
  \/ \E w \in Wrappers : \E s \in SourceOutcomes : SettleSource(w, s)
  \/ \E p \in Wrappers : \E op \in Combinators \ {"tapBoth"} : Call(p, op, FALSE, FALSE)
  \/ \E p \in Wrappers : \E rightFn, leftFn \in BOOLEAN : Call(p, "tapBoth", rightFn, leftFn)
  \/ RunCtor
  \/ RunTransform
  \/ \E cb \in AllCallbacks : RunCallback(cb)
  \/ RunInner
  \/ RunResume
  \/ \E w \in Wrappers : SettleCallback(w)

Spec == Init /\ [][Next]_vars

\* Three more scripts, each on one source a. Their sources, and the
\* callbacks that succeed:
ObservedEithers == {Right(Val(1)), Left(Val(1))}
ObservedOutcomes == {Fulfilled(Val(1)), Rejected(Val(1))}
ObservedCallbacks == {cb \in AllCallbacks : cb.how \in {"returns", "resolves", "returnsAsync"}}

\* a.op(fn): a wrapper derived from the source itself
Sibling(op, rightFn, leftFn) == Call(1, op, rightFn, leftFn)

\* the only wrapper derived: b = a.op(fn)
Derive(op, rightFn, leftFn) == n = 1 /\ Call(1, op, rightFn, leftFn)

\* A script that derives several wrappers from a, side by side.
InitSiblings ==
  /\ world = "siblings"
  /\ sync = SyncStart(Right(Val(1)))
  /\ Blank

NextSiblings ==
  \/ \E e \in ObservedEithers : fromEither(e)
  \/ tryCatch("tryCatch")
  \/ \E s \in ObservedOutcomes : SettleSource(1, s)
  \/ \E op \in Combinators \ {"filter", "tapBoth"} : Sibling(op, FALSE, FALSE)
  \/ \E rightFn, leftFn \in BOOLEAN : Sibling("tapBoth", rightFn, leftFn)
  \/ RunCtor
  \/ RunTransform
  \/ \E cb \in ObservedCallbacks : RunCallback(cb)
  \/ RunInner
  \/ RunResume
  \/ \E w \in Wrappers : SettleCallback(w)

SpecSiblings == InitSiblings /\ [][NextSiblings]_vars

\* A script that derives b = a.op(fn) and observes a and b with then / catch.
InitObserve ==
  /\ world = "observe"
  /\ sync = SyncStart(Right(Val(1)))
  /\ Blank

NextObserve ==
  \/ \E e \in ObservedEithers : fromEither(e)
  \/ tryCatch("tryCatch")
  \/ \E s \in ObservedOutcomes : SettleSource(1, s)
  \/ \E op \in Combinators \ {"filter", "tapBoth"} : Derive(op, FALSE, FALSE)
  \/ \E rightFn, leftFn \in BOOLEAN : Derive("tapBoth", rightFn, leftFn)
  \/ RunCtor
  \/ RunTransform
  \/ \E cb \in AllCallbacks : RunCallback(cb)
  \/ RunInner
  \/ RunResume
  \/ \E w \in Wrappers : SettleCallback(w)
  \/ \E p \in Wrappers : \E f, r \in BOOLEAN : Observe(p, "then", f, r, "value")
  \/ \E p \in Wrappers : Observe(p, "catch", FALSE, TRUE, "value")
  \/ RunObserve

SpecObserve == InitObserve /\ [][NextObserve]_vars

\* A script that asks a for its value or its error with a default.
NextGet ==
  \/ \E e \in Eithers(PlainValues) : fromEither(e)
  \/ \E api \in SourceApis : tryCatch(api)
  \/ \E s \in SourceOutcomes : SettleSource(1, s)
  \/ RunCtor
  \/ \E api \in {"getOrElse", "getErrorOrElse"} : \E d \in Defaults :
       Observe(1, api, FALSE, FALSE, d)
  \/ RunObserve
  \/ \E k \in 1..MaxObservers : SettleProducer(k)

SpecGet == InitObserve /\ [][NextGet]_vars

\* A script that builds a, derives b = a.op(f) with a pure f or wraps a
\* again, and asks the wrappers for isRight(), isLeft() and toResult().
PureCallbacks == {cb \in AllCallbacks : cb.how = "returns"}

NextAgree ==
  \/ \E e \in Eithers(PlainValues) : fromEither(e)
  \/ \E api \in SourceApis : tryCatch(api)
  \/ \E s \in SourceOutcomes : SettleSource(1, s)
  \/ \E op \in {"map", "mapError", "flatMap", "filter"} : Derive(op, FALSE, FALSE)
  \/ \E p \in Wrappers : Wrap(p)
  \/ RunCtor
  \/ RunAdopt
  \/ RunForward
  \/ RunTransform
  \/ \E cb \in PureCallbacks : RunCallback(cb)
  \/ RunResume
  \/ \E p \in Wrappers : \E api \in {"isRight", "isLeft", "toResult"} :
       Observe(p, api, FALSE, FALSE, "value")
  \/ RunObserve

SpecAgree == InitObserve /\ [][NextAgree]_vars

\* A script that builds a chain of combinators on a, run by a host that
\* goes on as long as something is left to do: it runs the queued microtasks
\* and, once the queue is empty, settles the promises that are still pending.
InitLive ==
  /\ world = "live"
  /\ sync = SyncStart(Right(Val(1)))
  /\ Blank

Microtask ==
  \/ RunCtor
  \/ RunTransform
  \/ \E cb \in AllCallbacks : RunCallback(cb)
  \/ RunInner
  \/ RunResume

HostSettles ==
  \/ \E s \in ObservedOutcomes : SettleSource(1, s)
  \/ \E w \in Wrappers : SettleCallback(w)

NextLive ==
  \/ \E e \in ObservedEithers : fromEither(e)
  \/ tryCatch("tryCatch")
  \/ \E p \in Wrappers : \E op \in Combinators \ {"filter", "tapBoth"} :
       Call(p, op, FALSE, FALSE)
  \/ \E p \in Wrappers : \E rightFn, leftFn \in BOOLEAN : Call(p, "tapBoth", rightFn, leftFn)
  \/ Microtask
  \/ HostSettles

SpecLive ==
  /\ InitLive
  /\ [][NextLive]_vars
  /\ WF_vars(Microtask)
  /\ WF_vars(HostSettles)

\* ------------------------------------------------------------ the claims
Live(w) == w <= n /\ made[w].by \notin {"none", "reserved"}
HasCall(w) == \E i \in 1..Len(calls) : calls[i].w = w
Failed(w) == HasCall(w) /\ CallOf(w).cb.how \in {"throws", "rejects"}
Gave(w) == Apply(CallOf(w).cb.fn, CallOf(w).arg)
Parent(w) == promise[made[w].parent]
By(w, op) == Live(w) /\ made[w].by = op /\ made[w].role = "fn"

\* the step of the script's chain a callback belongs to: the wrapper that
\* invoked it, or the tapBoth wrapper that derived that wrapper
StepOf(w) == IF made[w].role = "fn" THEN w ELSE w - 1

RECURSIVE IsAncestor(_, _)
IsAncestor(a, w) ==
  /\ made[w].parent # 0
  /\ \/ made[w].parent = a
     \/ IsAncestor(a, made[w].parent)

\* C1: the promise of every AsyncEither wrapper, however it was built, is at
\* every moment pending or fulfilled with an Either; it is never rejected,
\* also when the source promise rejects or a callback throws or rejects.
C1_NeverRejects ==
  \A w \in Wrappers :
    /\ promise[w].st # "rejected"
    /\ promise[w].st = "fulfilled" => InstanceOfEither(promise[w].v)
    /\ frame[w].on = "asyncEither" =>
         /\ frame[w].got.st # "rejected"
         /\ frame[w].got.st = "fulfilled" => InstanceOfEither(frame[w].got.v)

\* a combinator's transform rejected (its callback threw) and the wrapper
\* settled all the same
C1_Witness ==
  \E w \in Wrappers :
    /\ Live(w)
    /\ made[w].by \in Combinators
    /\ arg[w].st = "rejected"
    /\ promise[w].st = "fulfilled"

C3_CallbackFailureCaptured ==
  /\ lastCall.op \in {"map", "flatMap"} => (lastCall.thrown = Undefined /\ lastCall.ret # 0)
  /\ \A w \in Wrappers :
       ((By(w, "map") \/ By(w, "flatMap")) /\ Failed(w)) =>
         /\ Parent(w).v.tag = "Right"
         /\ promise[w].st # "rejected"
         /\ Settled(promise[w]) => promise[w] = Fulfilled(Left(Gave(w)))

\* a map whose callback returned a promise that rejected, settled
C3_Witness ==
  \E w \in Wrappers :
    /\ By(w, "map")
    /\ HasCall(w)
    /\ CallOf(w).cb.how = "rejects"
    /\ promise[w].st = "fulfilled"

\* C4: map, synchronous and asynchronous: on a Right holding v the result is
\* a Right holding f(v) (awaited for AsyncEither), on a Left holding e the
\* result is a Left holding e and f is never invoked.
C4_Map ==
  /\ sync.last.op = "map" =>
       IF sync.last.recv.tag = "Right"
       THEN sync.last.out.kind = "return" =>
              sync.last.out.v = Right(Apply(sync.last.a.fn, sync.last.recv.value))
       ELSE sync.last.out = Return(Left(sync.last.recv.error))
  /\ \A w \in Wrappers :
       By(w, "map") =>
         IF Parent(w).st = "fulfilled" /\ Parent(w).v.tag = "Right"
         THEN (HasCall(w) /\ ~Failed(w) /\ Settled(promise[w])) =>
                /\ CallOf(w).arg = Parent(w).v.value
                /\ promise[w] = Fulfilled(Right(Gave(w)))
         ELSE /\ ~HasCall(w)
              /\ Settled(promise[w]) => promise[w] = Fulfilled(Left(Parent(w).v.error))

\* an asynchronous map over a Right with a promise-returning f, settled
C4_Witness ==
  \E w \in Wrappers :
    /\ By(w, "map")
    /\ HasCall(w)
    /\ CallOf(w).cb.how = "resolves"
    /\ promise[w].st = "fulfilled"

\* C5: AsyncEither.flatMap: on a Left the result is the same Left and f is
\* never invoked; on a Right holding v the wrapper settles to exactly the
\* Either that f(v) returned, resolved to, or that the AsyncEither f(v)
\* returned settles to: flattened, never a Right around it.
C5_FlatMap ==
  \A w \in Wrappers :
    By(w, "flatMap") =>
      IF Parent(w).st = "fulfilled" /\ Parent(w).v.tag = "Right"
      THEN (HasCall(w) /\ ~Failed(w) /\ Settled(promise[w])) =>
             /\ CallOf(w).arg = Parent(w).v.value
             /\ promise[w] = Fulfilled(Gave(w))
             /\ promise[w].v # Right(Gave(w))
      ELSE /\ ~HasCall(w)
           /\ Settled(promise[w]) => promise[w] = Parent(w)

\* a flatMap whose callback returned an AsyncEither, settled
C5_Witness ==
  \E w \in Wrappers :
    /\ By(w, "flatMap")
    /\ HasCall(w)
    /\ CallOf(w).cb.how = "returnsAsync"
    /\ promise[w].st = "fulfilled"

\* C6: AsyncEither.recover: on a Left, fn is invoked with the whole Left
\* Either and the wrapper settles to what the AsyncEither that fn returned
\* settles to; on a Right holding v the result is a Right holding v and fn
\* is never invoked.
C6_Recover ==
  \A w \in Wrappers :
    By(w, "recover") =>
      IF Parent(w).st = "fulfilled" /\ Parent(w).v.tag = "Left"
      THEN /\ HasCall(w) => CallOf(w).arg = Parent(w).v
           /\ (HasCall(w) /\ ~Failed(w) /\ Settled(promise[w])) =>
                promise[w] = Fulfilled(Apply(CallOf(w).cb.fn, Parent(w).v))
      ELSE /\ ~HasCall(w)
           /\ Settled(promise[w]) => promise[w] = Fulfilled(Right(Parent(w).v.value))

\* a recover over a Left whose fn returned asyncRight(...), settled to a Right
C6_Witness ==
  \E w \in Wrappers :
    /\ By(w, "recover")
    /\ HasCall(w)
    /\ CallOf(w).cb = Callback("wrap", "returnsAsync")
    /\ promise[w].st = "fulfilled"
    /\ promise[w].v.tag = "Right"

\* C7: mapError, synchronous and asynchronous: on a Left holding e the result
\* is a Left holding f(e) (awaited for AsyncEither), on a Right holding v the
\* result is a Right holding v and f is never invoked.
C7_MapError ==
  /\ sync.last.op = "mapError" =>
       IF sync.last.recv.tag = "Left"
       THEN sync.last.out.kind = "return" =>
              sync.last.out.v = Left(Apply(sync.last.a.fn, sync.last.recv.error))
       ELSE sync.last.out = Return(Right(sync.last.recv.value))
  /\ \A w \in Wrappers :
       By(w, "mapError") =>
         IF Parent(w).st = "fulfilled" /\ Parent(w).v.tag = "Left"
         THEN (HasCall(w) /\ ~Failed(w) /\ Settled(promise[w])) =>
                /\ CallOf(w).arg = Parent(w).v.error
                /\ promise[w] = Fulfilled(Left(Gave(w)))
         ELSE /\ ~HasCall(w)
              /\ Settled(promise[w]) => promise[w] = Fulfilled(Right(Parent(w).v.value))

\* an asynchronous mapError over a Left with a promise-returning f, settled
C7_Witness ==
  \E w \in Wrappers :
    /\ By(w, "mapError")
    /\ HasCall(w)
    /\ CallOf(w).cb.how = "resolves"
    /\ promise[w].st = "fulfilled"

\* C8: filter, synchronous and asynchronous: on a Right holding v, when
\* predicate(v) is true (awaited for AsyncEither) the result is a Right holding
\* v and errorFactory is not invoked, when it is false the result is a Left
\* holding errorFactory(v); and AsyncEither exposes filter as a combinator
\* like the others: calling it returns a wrapper.
C8_Filter ==
  /\ (sync.last.op = "filter" /\ sync.last.recv.tag = "Right"
        /\ sync.last.out.kind = "return") =>
       IF Truthy(Apply(sync.last.a.fn, sync.last.recv.value))
       THEN /\ sync.last.out.v = Right(sync.last.recv.value)
            /\ \A i \in 1..Len(sync.last.out.calls) :
                 sync.last.out.calls[i].role # "errorFactory"
       ELSE sync.last.out.v = Left(Apply(sync.last.b.fn, sync.last.recv.value))
  /\ lastCall.op = "filter" => (lastCall.thrown = Undefined /\ lastCall.ret \in Wrappers)
  /\ \A w \in Wrappers :
       (By(w, "filter") /\ Parent(w).st = "fulfilled" /\ Parent(w).v.tag = "Right"
          /\ Settled(promise[w])
          /\ \A i \in 1..Len(calls) :
               calls[i].w = w => calls[i].cb.how \notin {"throws", "rejects"}) =>
         \/ promise[w] = Fulfilled(Right(Parent(w).v.value))
         \/ \E i \in 1..Len(calls) :
              /\ calls[i].w = w
              /\ calls[i].role = "errorFactory"
              /\ promise[w] = Fulfilled(Left(Apply(calls[i].cb.fn, Parent(w).v.value)))

\* filter called on an AsyncEither that has settled to a Right
C8_Witness ==
  /\ lastCall.op = "filter"
  /\ lastCall.recv \in Wrappers
  /\ promise[lastCall.recv].st = "fulfilled"
  /\ promise[lastCall.recv].v.tag = "Right"

\* the combinators of the short-circuit claim
ShortCircuitOps == {"map", "flatMap", "filter", "tap"}

RECURSIVE RootOf(_)
RootOf(w) == IF made[w].parent = 0 THEN w ELSE RootOf(made[w].parent)

\* w is a source that settles to a Left, or was derived from one by
\* map / flatMap / filter / tap calls only
RECURSIVE OnLeftChain(_)
OnLeftChain(w) ==
  /\ Live(w)
  /\ IF made[w].parent = 0
     THEN Settled(arg[w]) /\ Constructor(arg[w]).v.tag = "Left"
     ELSE /\ made[w].by \in ShortCircuitOps
          /\ made[w].role = "fn"
          /\ OnLeftChain(made[w].parent)

\* C9: Left short-circuit over any sequence: starting from a Left holding e,
\* synchronous or asynchronous, after any finite sequence of map, flatMap,
\* filter and tap calls the result is a Left holding e, and none of the
\* callbacks passed along the way is ever invoked.
C9_LeftShortCircuit ==
  /\ (sync.start.tag = "Left" /\ \A i \in 1..Len(sync.ops) : sync.ops[i] \in ShortCircuitOps) =>
       /\ sync.sut = sync.start
       /\ sync.calls = <<>>
       /\ sync.last.out.kind = "return"
  /\ \A w \in Wrappers :
       OnLeftChain(w) =>
         /\ ~HasCall(w)
         /\ Settled(promise[w]) => promise[w] = Constructor(arg[RootOf(w)])
  /\ (lastCall.op \in ShortCircuitOps /\ OnLeftChain(lastCall.recv)) =>
       (lastCall.thrown = Undefined /\ lastCall.ret \in Wrappers)

\* filter called in a chain that started from a Left
C9_Witness ==
  /\ lastCall.op = "filter"
  /\ lastCall.recv \in Wrappers
  /\ OnLeftChain(lastCall.recv)
  /\ Settled(promise[lastCall.recv])

\* C10: strict sequential ordering within one chain a.op1(f).op2(g): g is
\* not invoked until the invocation of f, the promise f returned included,
\* has settled, and no two callbacks of one linear chain are in flight
\* together.
C10_SequentialChain ==
  /\ \A i, j \in 1..Len(calls) :
       IsAncestor(StepOf(calls[i].w), StepOf(calls[j].w)) =>
         /\ i < j
         /\ calls[i].w \notin inflight
         /\ frame[calls[i].w].pc = "done"
  /\ \A v, w \in inflight : v # w => ~IsAncestor(StepOf(v), StepOf(w))

\* f returned a promise, and g, one step further down the chain, was invoked
C10_Witness ==
  \E i, j \in 1..Len(calls) :
    /\ IsAncestor(StepOf(calls[i].w), StepOf(calls[j].w))
    /\ calls[i].cb.how = "resolves"

\* the payload an Either holds
Payload(either) == IF either.tag = "Right" THEN either.value ELSE either.error

TapOps == {"tap", "tapError", "tapBoth"}

\* C14: AsyncEither tap, tapError and tapBoth never change the outcome: the
\* resulting wrapper settles to the Either of the original, also when the
\* callback throws or returns a rejecting promise; the exception is logged
\* and suppressed, never turned into a Left and never a rejection.
C14_TapKeepsOutcome ==
  \A w \in Wrappers :
    (Live(w) /\ made[w].by \in TapOps) =>
      /\ promise[w].st # "rejected"
      /\ Settled(promise[w]) => promise[w] = Parent(w)
      /\ (Failed(w) /\ Settled(promise[w])) =>
           \E i \in 1..Len(console) : console[i] = [at |-> made[w].by, error |-> Gave(w)]

\* a tap whose callback returned a promise that rejected, settled
C14_Witness ==
  \E w \in Wrappers :
    /\ By(w, "tap")
    /\ HasCall(w)
    /\ CallOf(w).cb.how = "rejects"
    /\ promise[w].st = "fulfilled"

\* C15: deriving never affects the original: a call of a combinator on a,
\* and the later settlement or callback failure of the derived wrapper, leave
\* the Either that a settled to unchanged, and every wrapper derived from a
\* hands its callback a's Either (its payload), whatever the callbacks of the
\* other wrappers derived from a did.
C15_OriginalUntouched ==
  /\ [][\A w \in Wrappers : Settled(promise[w]) => promise'[w] = promise[w]]_vars
  /\ [](\A w \in Wrappers :
          (Live(w) /\ HasCall(w)) =>
            CallOf(w).arg = IF made[w].by = "recover" THEN Parent(w).v
                            ELSE Payload(Parent(w).v))

\* two wrappers derived from the same a: the callback of one failed and that
\* wrapper settled, the callback of the other was invoked after it
C15_Witness ==
  \E v, w \in Wrappers :
    /\ v # w
    /\ Live(v) /\ Live(w)
    /\ made[v].parent = made[w].parent
    /\ made[v].parent # 0
    /\ Failed(v)
    /\ Settled(promise[v])
    /\ HasCall(w)
    /\ Settled(promise[w])

\* the invocations made by the wrapper that the tapBoth wrapper w derived
\* with this.tap(rightFn) / this.tapError(leftFn)
TapBothCalls(w) ==
  {i \in 1..Len(calls) :
     /\ calls[i].w = w + 1
     /\ made[calls[i].w].role \in {"rightFn", "leftFn"}}

\* C18: tapBoth dispatch, synchronous and asynchronous: on a Right only
\* rightFn is invoked (once, with the value) and only if it is supplied, on a
\* Left only leftFn is invoked (once, with the error) and only if it is
\* supplied; the callback of the other variant is never invoked, and with the
\* applicable callback absent no callback runs and the Either is returned
\* unchanged.
C18_TapBothDispatch ==
  /\ sync.last.op = "tapBoth" =>
       LET fn == IF sync.last.recv.tag = "Right" THEN sync.last.a ELSE sync.last.b
           out == sync.last.out
       IN  /\ out.kind = "return"
           /\ out.v = sync.last.recv
           /\ IF fn = NoCallback THEN out.calls = <<>>
              ELSE /\ Len(out.calls) = 1
                   /\ out.calls[1].cb = fn
                   /\ out.calls[1].arg = Payload(sync.last.recv)
  /\ \A w \in Wrappers :
       (By(w, "tapBoth") /\ Settled(promise[w])) =>
         LET either == Parent(w).v
             given == IF either.tag = "Right" THEN made[w].rightFn ELSE made[w].leftFn
         IN  /\ promise[w] = Parent(w)
             /\ ~HasCall(w)
             /\ IF given
                THEN /\ Cardinality(TapBothCalls(w)) = 1
                     /\ \A i \in TapBothCalls(w) :
                          /\ calls[i].role = IF either.tag = "Right" THEN "rightFn" ELSE "leftFn"
                          /\ calls[i].arg = Payload(either)
                ELSE TapBothCalls(w) = {}

\* the synchronous tapBoth called on a Right with a rightFn
C18_Witness ==
  /\ sync.last.op = "tapBoth"
  /\ sync.last.recv.tag = "Right"
  /\ sync.last.a # NoCallback

\* every Either the state holds: the script's, and those wrappers settled to
EithersInState ==
  {sync.start, sync.sut}
  \cup {promise[w].v : w \in {x \in Wrappers : promise[x].st = "fulfilled"}}

\* C19: variant exclusivity: every Either reachable by construction or by
\* any sequence of combinators satisfies exactly one of isRight() and
\* isLeft(); a Right answers isRight() = true and isLeft() = false, a Left
\* the opposite, and the answers of an instance never change.
C19_VariantExclusive ==
  /\ \A either \in EithersInState :
       InstanceOfEither(either) =>
         /\ isRight(either) # isLeft(either)
         /\ isRight(either) = (either.tag = "Right")
  /\ sync.last.op = "isRight" =>
       sync.last.out = Return(Bool(sync.last.recv.tag = "Right"))
  /\ sync.last.op = "isLeft" =>
       sync.last.out = Return(Bool(sync.last.recv.tag = "Left"))
  /\ sync.last.op \in {"isRight", "isLeft"} => sync.sut = sync.last.recv
  /\ (Len(sync.ops) = 2 /\ sync.ops[1] = "isRight" /\ sync.ops[2] = "isLeft") =>
       sync.last.out = Return(Bool(~isRight(sync.start)))

\* a combinator turned a Right into a Left, and the Left was asked isLeft()
C19_Witness ==
  /\ Len(sync.ops) = 2
  /\ sync.start.tag = "Right"
  /\ sync.last.op = "isLeft"
  /\ sync.last.recv.tag = "Left"

\* C20: right(v).unwrap() returns v and left(e).unwrapError() returns e;
\* left(e).unwrap() throws an EitherUnwrapError with message 'Cannot unwrap
\* Left instance', right(v).unwrapError() one with message 'Cannot
\* unwrapError Right instance', both with code 'EITHER_UNWRAP_ERROR', and the
\* Either is unchanged after the failure.
C20_Unwrap ==
  /\ sync.last.op = "unwrap" =>
       sync.last.out =
         IF sync.last.recv.tag = "Right" THEN Return(sync.last.recv.value)
         ELSE Throw([tag |-> "EitherUnwrapError", message |-> "Cannot unwrap Left instance",
                     code |-> "EITHER_UNWRAP_ERROR"])
  /\ sync.last.op = "unwrapError" =>
       sync.last.out =
         IF sync.last.recv.tag = "Left" THEN Return(sync.last.recv.error)
         ELSE Throw([tag |-> "EitherUnwrapError",
                     message |-> "Cannot unwrapError Right instance",
                     code |-> "EITHER_UNWRAP_ERROR"])
  /\ sync.last.op \in {"unwrap", "unwrapError"} => sync.sut = sync.last.recv

\* unwrapError() called on a Right: it threw
C20_Witness ==
  /\ sync.last.op = "unwrapError"
  /\ sync.last.recv.tag = "Right"
  /\ sync.last.out.kind = "throw"

\* whether the callback of the combinator call that made w applies to the
\* Either its receiver settled to
Applies(w) ==
  /\ Parent(w).st = "fulfilled"
  /\ LET tag == Parent(w).v.tag
     IN  CASE made[w].by \in {"map", "flatMap", "tap"} -> tag = "Right"
           [] made[w].by \in {"mapError", "recover", "tapError"} -> tag = "Left"
           [] made[w].by = "tapBoth" ->
                IF tag = "Right" THEN made[w].rightFn ELSE made[w].leftFn
           [] OTHER -> FALSE

\* the invocations of the callback passed to the combinator call that made w
StepCalls(w) ==
  IF made[w].by = "tapBoth" THEN TapBothCalls(w)
  ELSE {i \in 1..Len(calls) : calls[i].w = w}

\* v and w were derived from the same wrapper by the script, v first
Siblings(v, w) ==
  /\ Live(v) /\ Live(w)
  /\ v < w
  /\ made[v].role = "fn" /\ made[w].role = "fn"
  /\ made[v].parent # 0
  /\ made[v].parent = made[w].parent

\* the callback of v started before the callback of w, once that has started
StartsFirst(v, w) ==
  StepCalls(w) # {} =>
    /\ StepCalls(v) # {}
    /\ \A i \in StepCalls(v) : \A j \in StepCalls(w) : i < j

Received(k) ==
  /\ k <= Len(observers)
  /\ observers[k].api \in {"then", "catch"}
  /\ observers[k].st = "delivered"

\* C12: each continuation runs exactly once: for one call of an AsyncEither
\* combinator, tapBoth included, its callback is invoked exactly once when it
\* applies to the settled variant and never otherwise, however many times
\* the original or the resulting wrapper is then-ed; every observer of the
\* same wrapper obtains the same Either.
C12_ExactlyOnce ==
  /\ \A w \in Wrappers :
       (Live(w) /\ made[w].role = "fn" /\ made[w].parent # 0) =>
         /\ Cardinality(StepCalls(w)) <= 1
         /\ Cardinality({i \in 1..Len(calls) : calls[i].w = w}) <= 1
         /\ Settled(promise[w]) =>
              Cardinality(StepCalls(w)) = IF Applies(w) THEN 1 ELSE 0
  /\ \A j, k \in 1..MaxObservers :
       (Received(j) /\ Received(k) /\ observers[j].on = observers[k].on) =>
         /\ observers[j].got = observers[k].got
         /\ observers[j].got = promise[observers[j].on].v

\* the derived wrapper was then-ed twice and its callback ran
C12_Witness ==
  \E j, k \in 1..MaxObservers :
    /\ j # k
    /\ Received(j) /\ Received(k)
    /\ observers[j].on = observers[k].on
    /\ made[observers[j].on].parent # 0
    /\ StepCalls(observers[j].on) # {}

\* C13: tap / tapError / tapBoth side effects complete before the result is
\* observable: for b = a.tap(fn), a.tapError(fn) or a.tapBoth(rightFn,
\* leftFn) whose callback applies, when a continuation registered on b with
\* then / catch receives b's Either, the callback has been invoked and the
\* promise it returned has settled.
C13_SideEffectsFirst ==
  [][\A k \in 1..Len(observers) :
       LET b == observers[k].on
       IN  (/\ observers[k].st = "waiting"
            /\ observers'[k].st = "delivered"
            /\ made[b].by \in TapOps
            /\ Applies(b)) =>
             /\ StepCalls(b) # {}
             /\ \A i \in StepCalls(b) : calls[i].w \notin inflight]_vars

\* a continuation on b received b's Either, where the callback of b had
\* returned a promise
C13_Witness ==
  \E k \in 1..MaxObservers :
    /\ Received(k)
    /\ made[observers[k].on].by \in TapOps
    /\ \E i \in StepCalls(observers[k].on) : calls[i].cb.how = "resolves"

\* C16: then(onfulfilled, onrejected) and catch(onrejected) on an AsyncEither
\* deliver the settled Either to onfulfilled, or resolve to it when no
\* onfulfilled is given; onrejected is never invoked, however the wrapper was
\* built.
C16_PromiseSurface ==
  \A k \in 1..MaxObservers :
    Received(k) =>
      LET o == observers[k]
          s == promise[o.on]
      IN  /\ s.st = "fulfilled"
          /\ InstanceOfEither(o.got)
          /\ o.got = s.v
          /\ o.handler # "onrejected"
          /\ IF o.api = "then" /\ o.onfulfilled THEN o.handler = "onfulfilled"
             ELSE o.handler = "none" /\ o.out = Fulfilled(s.v)

\* then(onfulfilled, onrejected) on a wrapper built from something that
\* rejected: onfulfilled received a Left
C16_Witness ==
  \E k \in 1..MaxObservers :
    /\ Received(k)
    /\ observers[k].onfulfilled /\ observers[k].onrejected
    /\ arg[observers[k].on].st = "rejected"
    /\ observers[k].handler = "onfulfilled"

\* C17: AsyncEither.getOrElse: on a Right it resolves to the held value and
\* a function passed as default is never invoked; on a Left it resolves to
\* the default, or, when the default is a function, to the awaited result of
\* invoking it exactly once. getErrorOrElse: the same with the variants
\* swapped.
C17_GetOrElse ==
  \A k \in 1..MaxObservers :
    (/\ k <= Len(observers)
     /\ observers[k].api \in {"getOrElse", "getErrorOrElse"}
     /\ observers[k].st # "waiting") =>
      LET o == observers[k]
          either == promise[o.on].v
          holds == IF o.api = "getOrElse" THEN either.tag = "Right" ELSE either.tag = "Left"
      IN  IF holds
          THEN o.invoked = 0 /\ o.out = Fulfilled(Payload(either))
          ELSE /\ o.invoked = IF o.dflt = "value" THEN 0 ELSE 1
               /\ o.st = "delivered" => o.out = Fulfilled(DefaultValue)
               /\ o.st = "producing" => o.out = Pending

\* getOrElse on a Left with a function that returns a promise: resolved
C17_Witness ==
  \E k \in 1..MaxObservers :
    /\ k <= Len(observers)
    /\ observers[k].api = "getOrElse"
    /\ observers[k].dflt = "resolves"
    /\ observers[k].st = "delivered"
    /\ promise[observers[k].on].v.tag = "Left"

\* the invocations, among those a synchronous call made, of callbacks that threw
Throwers(out) == {i \in 1..Len(out.calls) : out.calls[i].cb.how = "throws"}

\* C21: functor laws of the synchronous map, for both variants and all total
\* f, g over the value set: either.map(x => x) is value-equal to either, and
\* either.map(f).map(g) is value-equal to either.map(x => g(f(x))).
C21_FunctorLaws ==
  /\ (sync.last.op = "map" /\ sync.last.a = Callback("id", "returns")) =>
       /\ sync.last.out.kind = "return"
       /\ sync.last.out.v = sync.last.recv
  /\ sync.ops = <<"map", "map">> =>
       IF sync.start.tag = "Left"
       THEN \A f, g \in Total :
              sync.sut = Dispatch(sync.start, "map", Callback(Compose(f, g), "returns"),
                                  NoCallback).v
       ELSE (Len(sync.calls) = 2 /\ Throwers([calls |-> sync.calls]) = {}) =>
              sync.sut = Dispatch(sync.start, "map",
                                  Callback(Compose(sync.calls[1].cb.fn, sync.calls[2].cb.fn),
                                           "returns"),
                                  NoCallback).v

\* right(v).map(f).map(g) with f and g both the successor function
C21_Witness ==
  /\ sync.ops = <<"map", "map">>
  /\ sync.start.tag = "Right"
  /\ Len(sync.calls) = 2
  /\ \A i \in 1..2 : sync.calls[i].cb = Callback("succ", "returns")
  /\ sync.sut = Right(Apply("succ.succ", sync.start.value))

\* C22: synchronous tap / tapError: Right.tap(fn) and Left.tapError(fn)
\* invoke fn once with the payload, swallow any exception fn throws, and
\* return the same Either, variant and payload unchanged; Right.tapError and
\* Left.tap never invoke their argument and return the same instance. Every
\* Right supports tap, tapError, tapBoth and toResult.
C22_SyncTap ==
  /\ sync.last.op \in {"tap", "tapError"} =>
       LET out == sync.last.out
           applies == (sync.last.op = "tap") = (sync.last.recv.tag = "Right")
       IN  /\ out.kind = "return"
           /\ out.v = sync.last.recv
           /\ sync.sut = sync.last.recv
           /\ IF applies
              THEN /\ Len(out.calls) = 1
                   /\ out.calls[1].cb = sync.last.a
                   /\ out.calls[1].arg = Payload(sync.last.recv)
              ELSE out.calls = <<>>
  /\ (sync.last.recv.tag = "Right"
        /\ sync.last.op \in {"tap", "tapError", "tapBoth", "toResult"}) =>
       sync.last.out # Throw(TypeError(sync.last.op))

\* right(v).tap(fn): the call threw a TypeError
C22_Witness ==
  /\ sync.last.op = "tap"
  /\ sync.last.recv.tag = "Right"
  /\ sync.last.out = Throw(TypeError("tap"))

\* C23: in the synchronous Either an exception thrown by the function passed
\* to map, mapError, flatMap or filter (predicate or errorFactory) is not
\* caught: it reaches the caller, no Either is returned and the receiver
\* keeps its variant and payload; only tap, tapError and tapBoth swallow
\* exceptions.
C23_SyncPropagates ==
  LET out == sync.last.out
  IN  /\ (sync.last.op \in {"map", "mapError", "flatMap", "filter"}
            /\ Throwers(out) # {}) =>
           /\ Throwers(out) = {Len(out.calls)}
           /\ out.kind = "throw"
           /\ out.v = Apply(out.calls[Len(out.calls)].cb.fn, out.calls[Len(out.calls)].arg)
           /\ sync.sut = sync.last.recv
      /\ (sync.last.op \in SyncOps /\ Throwers(out) # {} /\ out.kind = "return") =>
           /\ sync.last.op \in {"tap", "tapError", "tapBoth"}
           /\ out.v = sync.last.recv

\* right(v).filter(predicate, errorFactory): the predicate returned false and
\* the errorFactory threw
C23_Witness ==
  /\ sync.last.op = "filter"
  /\ sync.last.out.kind = "throw"
  /\ Len(sync.last.out.calls) = 2
  /\ sync.last.out.calls[2].role = "errorFactory"
  /\ sync.sut = sync.last.recv

\* C24: synchronous getOrElse / getErrorOrElse: right(v).getOrElse(d) returns
\* v and left(e).getOrElse(d) returns d; left(e).getErrorOrElse(d) returns e
\* and right(v).getErrorOrElse(d) returns d; neither ever throws.
C24_SyncGetOrElse ==
  /\ sync.last.op = "getOrElse" =>
       sync.last.out = Return(IF sync.last.recv.tag = "Right" THEN sync.last.recv.value
                              ELSE sync.last.d)
  /\ sync.last.op = "getErrorOrElse" =>
       sync.last.out = Return(IF sync.last.recv.tag = "Left" THEN sync.last.recv.error
                              ELSE sync.last.d)
  /\ sync.last.op \in {"getOrElse", "getErrorOrElse"} => sync.sut = sync.last.recv

\* right(v).getErrorOrElse(d) with d different from v
C24_Witness ==
  /\ sync.last.op = "getErrorOrElse"
  /\ sync.last.recv.tag = "Right"
  /\ sync.last.d # sync.last.recv.value
  /\ sync.last.out = Return(sync.last.d)

\* calls of isRight / isLeft / toResult on a wrapper whose promise they returned has settled
Answered(k, api) ==
  /\ k <= Len(observers)
  /\ observers[k].api = api
  /\ observers[k].st = "delivered"

\* what right(v).toResult() / left(e).toResult() is to be
ToResult(either) ==
  IF either.tag = "Right" THEN Success(either.value) ELSE Failure(either.error)

\* C25: toResult, synchronous and asynchronous: a Right holding v converts
\* to {success: true, value: v} and a Left holding e to {success: false,
\* error: e}; the success flag is true exactly when isRight() is true, and
\* AsyncEither.toResult resolves to the toResult of the Either it settles to.
C25_ToResult ==
  /\ sync.last.op = "toResult" =>
       /\ sync.last.out = Return(ToResult(sync.last.recv))
       /\ sync.last.out.v.success = isRight(sync.last.recv)
  /\ \A k \in 1..MaxObservers :
       Answered(k, "toResult") =>
         /\ observers[k].out = Fulfilled(ToResult(promise[observers[k].on].v))
         /\ observers[k].out.v.success = isRight(promise[observers[k].on].v)

\* toResult() of a wrapper that settled to a Right: its promise rejected with
\* a TypeError
C25_Witness ==
  \E k \in 1..MaxObservers :
    /\ Answered(k, "toResult")
    /\ promise[observers[k].on].v.tag = "Right"
    /\ observers[k].out = Rejected(TypeError("toResult"))

\* the callback a derived wrapper invoked, or any pure one when it invoked none
PureCallbackOf(w) == IF HasCall(w) THEN CallOf(w).cb ELSE Callback("succ", "returns")

\* C26: async / sync agreement: for every Either e and pure, total,
\* synchronous callbacks, the Either that AsyncEither.fromEither(e).op(args)
\* settles to is value-equal to e.op(args), for op in map, mapError, flatMap
\* and filter; isRight, isLeft and toResult of the wrapper resolve to those
\* of e.
C26_AsyncSyncAgree ==
  /\ lastCall.op \in {"map", "mapError", "flatMap", "filter"} =>
       (lastCall.thrown = Undefined /\ lastCall.ret # 0)
  /\ \A w \in Wrappers :
       (Live(w) /\ made[w].by \in {"map", "mapError", "flatMap", "filter"}
          /\ Settled(promise[w])) =>
         LET e == Parent(w).v
             out == Dispatch(e, made[w].by, PureCallbackOf(w), PureCallbackOf(w))
         IN  /\ out.kind = "return"
             /\ promise[w] = Fulfilled(out.v)
             /\ Len(out.calls) = Cardinality(StepCalls(w))
  /\ \A k \in 1..MaxObservers :
       /\ Answered(k, "isRight") =>
            observers[k].out = Fulfilled(Query(promise[observers[k].on].v, "isRight").v)
       /\ Answered(k, "isLeft") =>
            observers[k].out = Fulfilled(Query(promise[observers[k].on].v, "isLeft").v)
       /\ Answered(k, "toResult") =>
            LET out == Access(promise[observers[k].on].v, "toResult", Undefined)
            IN  out.kind = "return" /\ observers[k].out = Fulfilled(out.v)

\* AsyncEither.fromEither(e).filter(predicate, errorFactory): the call threw
C26_Witness ==
  /\ lastCall.op = "filter"
  /\ made[lastCall.recv].by = "fromEither"
  /\ lastCall.thrown = TypeError("filter")

\* the wrappers made by the constructor alone: from an Either, from a promise
\* of the host, from another AsyncEither
Constructed(w) == Live(w) /\ made[w].by \in {"fromEither", "tryCatch", "constructor"}

\* C27: constructor normalisation: an AsyncEither constructed from an
\* Either, from a promise that fulfils with an Either instance, or from
\* another AsyncEither settles to that same Either and never to a Right
\* wrapping it; only a fulfilment value that is not an Either instance is
\* wrapped in a Right.
C27_ConstructorNormalises ==
  \A w \in Wrappers :
    (Constructed(w) /\ Settled(promise[w])) =>
      /\ made[w].by = "constructor" => arg[w] = Parent(w)
      /\ (arg[w].st = "fulfilled" /\ InstanceOfEither(arg[w].v)) =>
           /\ promise[w] = Fulfilled(arg[w].v)
           /\ promise[w] # Fulfilled(Right(arg[w].v))
      /\ (arg[w].st = "fulfilled" /\ ~InstanceOfEither(arg[w].v)) =>
           promise[w] = Fulfilled(Right(arg[w].v))
      /\ promise[w].v.tag = "Right" =>
           (InstanceOfEither(promise[w].v.value) => arg[w] = Fulfilled(promise[w].v))

\* new AsyncEither(a), a built from a promise that fulfilled with a Left: settled
C27_Witness ==
  \E w \in Wrappers :
    /\ Live(w)
    /\ made[w].by = "constructor"
    /\ made[made[w].parent].by = "tryCatch"
    /\ arg[made[w].parent].st = "fulfilled"
    /\ InstanceOfEither(arg[made[w].parent].v)
    /\ arg[made[w].parent].v.tag = "Left"
    /\ promise[w] = Fulfilled(arg[made[w].parent].v)

\* C28: eventual settlement: when the source promise settles and every
\* callback along a finite chain of combinators returns, throws or returns a
\* promise that settles, then under fair scheduling of continuations every
\* wrapper of the chain eventually settles to an Either, the wrappers made
\* by tapBoth and by flatMap / recover callbacks that return an AsyncEither
\* included.
C28_EventuallySettles ==
  \A w \in Wrappers :
    [](Live(w) =>
         <>(/\ promise[w].st = "fulfilled"
            /\ InstanceOfEither(promise[w].v)
            /\ frame[w].on = "asyncEither" => frame[w].got.st = "fulfilled"))

\* a chain a.flatMap(f).op(g), f returning an AsyncEither, settled to its end
C28_Witness ==
  \E v, w \in Wrappers :
    /\ By(v, "flatMap")
    /\ HasCall(v)
    /\ CallOf(v).cb.how = "returnsAsync"
    /\ Live(w)
    /\ made[w].parent = v
    /\ made[1].by = "tryCatch"
    /\ Settled(promise[w])

\* C29: capture in the remaining AsyncEither combinators: when the callback
\* of mapError (on a Left), the predicate or errorFactory of filter (on a
\* Right), or the function of recover (on a Left) throws x or returns a
\* promise rejecting with x, the resulting AsyncEither settles fulfilled to a
\* Left holding x, never to a rejection and never to a Right.
C29_CaptureInTheRest ==
  /\ lastCall.op \in {"mapError", "filter", "recover"} =>
       (lastCall.thrown = Undefined /\ lastCall.ret # 0)
  /\ \A w \in Wrappers :
       ((By(w, "mapError") \/ By(w, "filter") \/ By(w, "recover")) /\ Failed(w)) =>
         /\ Parent(w).v.tag = IF made[w].by = "filter" THEN "Right" ELSE "Left"
         /\ promise[w].st # "rejected"
         /\ Settled(promise[w]) => promise[w] = Fulfilled(Left(Gave(w)))

\* filter called on a wrapper that had settled to a Right: the call threw and
\* there is no wrapper to settle
C29_Witness ==
  /\ lastCall.op = "filter"
  /\ lastCall.thrown = TypeError("filter")
  /\ lastCall.ret = 0
  /\ promise[lastCall.recv].st = "fulfilled"
  /\ promise[lastCall.recv].v.tag = "Right"

====
